---- MODULE Spec2Model ----
(***************************************************************************)
(* Model of preprocess.py: the corpus-to-dataset pipeline (main,           *)
(* build_save_dataset, build_save_in_shards_using_shards_size) and the     *)
(* vocabulary construction (build_vocab, build_field_vocab, merge_vocabs). *)
(*                                                                         *)
(* Files are modelled by name and content.  A text file next to a corpus   *)
(* is named by (corpus type, field, suffix): the path                      *)
(* <corpus> + "." + suffix + ".txt".  A dataset file is named by           *)
(* (corpus type, index): "<save_data>_<corpus_type>.<index>.pt"; the       *)
(* monolithic "<save_data>_<corpus_type>.pt" has the index Mono.           *)
(* The eight corpus paths are taken to be distinct and none of them to     *)
(* match another's '<corpus>.*.txt' pattern.                               *)
(*                                                                         *)
(* A line is a record [o, n, w]: w is the sequence of whitespace-separated *)
(* tokens of the line (what str.split() returns); o and n record where the *)
(* line comes from (the corpus type, or "stale" for a file left by an      *)
(* earlier run, and the line number in that file).                         *)
(***************************************************************************)
EXTENDS Integers, Sequences, FiniteSets, TLC

\* ------------------------------------------------------------------ bounds

\* Largest number of lines of a training corpus.
MaxTrainLines == 11
\* Largest number of lines of a validation corpus.
MaxValidLines == 2
\* Largest shard_size option.
MaxShardSize == 3
\* Largest vocabulary size option tried.
MaxVocabSize == 2
\* Largest minimum-frequency option tried.
MaxMinFreq == 2

\* Largest number of examples of a dataset file given to build_vocab directly.
MaxExamples == 2

\* ------------------------------------------------------------------ basics

CorpusTypes == {"train", "valid"}
FieldSet == {"src", "tgt", "structure", "mask"}

Min(a, b) == IF a <= b THEN a ELSE b
Max(a, b) == IF a >= b THEN a ELSE b

Range(s) == {s[i] : i \in 1..Len(s)}

RECURSIVE Concat(_)
Concat(ss) == IF ss = <<>> THEN <<>> ELSE Head(ss) \o Concat(Tail(ss))

\* Python's s[a:b] for 0 <= a on a list (0-based, end exclusive, clipped).
Slice(s, a, b) == SubSeq(s, a + 1, Min(b, Len(s)))

\* ------------------------------------------------------------------ file names

\* The characters that occur in the modelled suffixes, in code-point order
\* ('+' < '.' < '0' < ... < '9' < 't' < 'x'): Python compares strings by code point.
CharOrder == <<"+", ".", "0", "1", "2", "3", "4", "5", "6", "7", "8", "9", "t", "x">>
CharRank(c) == CHOOSE i \in 1..Len(CharOrder) : CharOrder[i] = c
DigitChars == <<"0", "1", "2", "3", "4", "5", "6", "7", "8", "9">>

\* "{0}".format(x) for x >= 0: the decimal digits of x.
RECURSIVE Format(_)
Format(x) == IF x < 10 THEN <<DigitChars[x + 1]>>
             ELSE Format(x \div 10) \o <<DigitChars[(x % 10) + 1]>>

\* The part of the path '<corpus>.<suffix>.txt' that follows '<corpus>.'.
PathTail(suffix) == suffix \o <<".", "t", "x", "t">>

\* Python's str < str: lexicographic by code point, a proper prefix first.
RECURSIVE StrLess(_, _)
StrLess(a, b) ==
    IF b = <<>> THEN FALSE
    ELSE IF a = <<>> THEN TRUE
    ELSE IF Head(a) = Head(b) THEN StrLess(Tail(a), Tail(b))
    ELSE CharRank(Head(a)) < CharRank(Head(b))

\* Order of two shard paths of one corpus (the common prefix '<corpus>.' decides nothing).
PathLess(s1, s2) == StrLess(PathTail(s1), PathTail(s2))

\* sorted(...) of a set of suffixes by their paths.
RECURSIVE Sorted(_)
Sorted(S) ==
    IF S = {} THEN <<>>
    ELSE LET m == CHOOSE s \in S : \A t \in S \ {s} : PathLess(s, t)
         IN  <<m>> \o Sorted(S \ {m})

\* ------------------------------------------------------------------ tokens and counters

\* onmt.constants, as used by merge_vocabs.
UNK_WORD == "<unk>"
PAD_WORD == "<blank>"
BOS_WORD == "<s>"
EOS_WORD == "</s>"
None == "None"

\* The tokens of the modelled corpora in Python's string order (code points:
\* digits < '<' < lower-case letters).
TokenOrder == <<"0", "1", "</s>", "<blank>", "<s>", "<unk>",
                "a", "b", "r", "s", "v", "w", "x", "y", "z">>
TokenRank(t) == CHOOSE i \in 1..Len(TokenOrder) : TokenOrder[i] = t

\* collections.Counter: a function from the tokens seen to their counts.
EmptyCounter == [t \in {} |-> 0]
Get(c, t) == IF t \in DOMAIN c THEN c[t] ELSE 0

\* Counter.update(iterable of tokens): every token's count grows by the number of
\* its occurrences in the iterable.
CounterUpdate(c, toks) ==
    [t \in DOMAIN c \cup Range(toks) |->
        Get(c, t) + Cardinality({i \in 1..Len(toks) : toks[i] = t})]

\* Counter + Counter (sum(..., Counter()) over two counters): positive counts only.
CounterAdd(c1, c2) ==
    LET sum == [t \in DOMAIN c1 \cup DOMAIN c2 |-> Get(c1, t) + Get(c2, t)]
    IN  [t \in {u \in DOMAIN sum : sum[u] > 0} |-> sum[t]]

\* del counter[tok] for every special.
CounterWithout(c, specials) == [t \in DOMAIN c \ Range(specials) |-> c[t]]

\* The words of a counter by decreasing frequency, ties in alphabetical order
\* (sorted by word, then a stable sort by frequency, reversed).
RECURSIVE WordsByFrequency(_)
WordsByFrequency(c) ==
    IF DOMAIN c = {} THEN <<>>
    ELSE LET first == CHOOSE t \in DOMAIN c : \A u \in DOMAIN c \ {t} :
                          \/ c[t] > c[u]
                          \/ c[t] = c[u] /\ TokenRank(t) < TokenRank(u)
         IN  <<first>> \o WordsByFrequency([u \in DOMAIN c \ {first} |-> c[u]])

\* The loop of torchtext.vocab.Vocab.__init__ over the sorted words: stop at the
\* first word below min_freq or when len(itos) == max_size.
RECURSIVE VocabFill(_, _, _, _, _)
VocabFill(itos, words, c, min_freq, max_size) ==
    IF words = <<>> THEN itos
    ELSE IF c[Head(words)] < min_freq \/ Len(itos) = max_size THEN itos
    ELSE VocabFill(Append(itos, Head(words)), Tail(words), c, min_freq, max_size)

\* torchtext.vocab.Vocab(counter, specials=..., max_size=..., min_freq=...):
\* freqs keeps the whole counter; itos is the specials followed by the kept words.
Vocab(counter, specials, max_size, min_freq) ==
    LET c == CounterWithout(counter, specials)
    IN  [freqs |-> counter,
         itos  |-> VocabFill(specials, WordsByFrequency(c), c,
                             Max(min_freq, 1), max_size + Len(specials))]

NoVocab == [freqs |-> EmptyCounter, itos |-> <<>>]

\* list(OrderedDict.fromkeys(...)): first occurrences, in order.
RECURSIVE Dedup(_, _)
Dedup(s, seen) ==
    IF s = <<>> THEN <<>>
    ELSE IF Head(s) \in seen THEN Dedup(Tail(s), seen)
    ELSE <<Head(s)>> \o Dedup(Tail(s), seen \cup {Head(s)})

RECURSIVE NotNone(_)
NotNone(s) ==
    IF s = <<>> THEN <<>>
    ELSE IF Head(s) = None THEN NotNone(Tail(s))
    ELSE <<Head(s)>> \o NotNone(Tail(s))

\* The specials build_field_vocab passes for a field.
FieldSpecials(field) ==
    Dedup(NotNone(<<field.unk_token, field.pad_token, field.init_token, field.eos_token>>), {})

\* build_field_vocab(field, counter, max_size=..., min_freq=...): the field's new vocab.
build_field_vocab(field, counter, max_size, min_freq) ==
    Vocab(counter, FieldSpecials(field), max_size, min_freq)

\* merge_vocabs summing only the frequencies of the words each vocabulary kept.
merge_vocabs_kept(v1, v2, vocab_size, min_frequency) ==
    LET kept(v) == [t \in DOMAIN v.freqs \cap Range(v.itos) |-> v.freqs[t]]
    IN  Vocab(CounterAdd(CounterAdd(EmptyCounter, kept(v1)), kept(v2)),
              <<UNK_WORD, PAD_WORD, BOS_WORD, EOS_WORD>>,
              vocab_size, min_frequency)

\* merge_vocabs(vocabs, vocab_size, min_frequency) for the two vocabularies given.
merge_vocabs(v1, v2, vocab_size, min_frequency) ==
    Vocab(CounterAdd(CounterAdd(EmptyCounter, v1.freqs), v2.freqs),
          <<UNK_WORD, PAD_WORD, BOS_WORD, EOS_WORD>>,
          vocab_size, min_frequency)

\* One pass of the loop over dataset.examples in build_vocab: every sequential
\* field's counter is updated with the example's tokens of that field.
RECURSIVE CountExamples(_, _, _)
CountExamples(cnt, examples, flds) ==
    IF examples = <<>> THEN cnt
    ELSE CountExamples(
            [k \in FieldSet |->
                IF flds[k].sequential THEN CounterUpdate(cnt[k], Head(examples)[k].w)
                ELSE cnt[k]],
            Tail(examples), flds)

\* build_vocab with the limits of src and tgt exchanged.
FieldVocabsSwapped(cnt, flds, o) ==
    [k \in FieldSet |->
        IF k = "tgt" THEN
            build_field_vocab(flds[k], cnt[k], o.src_vocab_size, o.src_words_min_frequency)
        ELSE IF k = "src" THEN
            build_field_vocab(flds[k], cnt[k], o.tgt_vocab_size, o.tgt_words_min_frequency)
        ELSE IF k = "structure" THEN
            build_field_vocab(flds[k], cnt[k], o.structure_vocab_size,
                              o.structure_words_min_frequency)
        ELSE build_field_vocab(flds[k], cnt[k], 2, 0)]

\* Lines 78-96 of build_vocab: the four per-field vocabularies.
FieldVocabs(cnt, flds, o) ==
    [k \in FieldSet |->
        IF k = "tgt" THEN
            build_field_vocab(flds[k], cnt[k], o.tgt_vocab_size, o.tgt_words_min_frequency)
        ELSE IF k = "src" THEN
            build_field_vocab(flds[k], cnt[k], o.src_vocab_size, o.src_words_min_frequency)
        ELSE IF k = "structure" THEN
            build_field_vocab(flds[k], cnt[k], o.structure_vocab_size,
                              o.structure_words_min_frequency)
        ELSE build_field_vocab(flds[k], cnt[k], 2, 0)]

\* Lines 99-109 of build_vocab: with share_vocab, src and tgt get the merged vocabulary.
SharedVocabs(vocabs, o) ==
    IF o.share_vocab THEN
        LET merged_vocab == merge_vocabs(vocabs["src"], vocabs["tgt"],
                                         o.src_vocab_size, o.src_words_min_frequency)
        IN  [k \in FieldSet |->
                IF k \in {"src", "tgt"} THEN merged_vocab ELSE vocabs[k]]
    ELSE vocabs

\* ------------------------------------------------------------------ corpora and files

Line(o, n, w) == [o |-> o, n |-> n, w |-> w]

\* Line j (0-based) of a well-formed corpus file: the source has 1 or 2 tokens, the
\* structure (len(src)+1)^2 tokens, the target 1 token and the mask len(tgt)^2 tokens.
\* Validation lines use tokens ("v", "w") that no training line has.
GoodLine(ct, fld, j) ==
    LET two == (j % 2 = 1)
    IN  CASE fld = "src" ->
               IF ct = "valid" THEN (IF two THEN <<"v", "a">> ELSE <<"v">>)
               ELSE (IF two THEN <<"b", "a">> ELSE <<"a">>)
          [] fld = "tgt" -> IF ct = "valid" THEN <<"w">> ELSE (IF two THEN <<"y">> ELSE <<"x">>)
          [] fld = "structure" ->
               IF two THEN <<"s", "r", "s", "s", "r", "s", "s", "s", "r">>
               ELSE <<"s", "r", "r", "s">>
          [] fld = "mask" -> IF two THEN <<"0">> ELSE <<"1">>

\* The ways a set of four corpus files can be shaped: line-aligned and well-formed,
\* one line with a structure or mask annotation of the wrong length, or files of
\* different lengths.
Shapes == {"ok", "bad_structure", "bad_mask", "long_src", "short_tgt",
           "short_structure", "short_mask"}

\* The corpus file of field fld: n lines when ok.
CorpusFile(ct, fld, n, shape) ==
    LET len == CASE shape = "long_src" /\ fld = "src" -> n + 1
                 [] shape = "short_tgt" /\ fld = "tgt" -> n - 1
                 [] shape = "short_structure" /\ fld = "structure" -> n - 1
                 [] shape = "short_mask" /\ fld = "mask" -> n - 1
                 [] OTHER -> n
    IN  [i \in 1..len |->
            LET w == GoodLine(ct, fld, i - 1)
            IN  IF i = n /\ (\/ shape = "bad_structure" /\ fld = "structure"
                             \/ shape = "bad_mask" /\ fld = "mask")
                THEN Line(ct, i - 1, Append(w, Head(w)))
                ELSE Line(ct, i - 1, w)]

\* A text file left next to a corpus by an earlier run.
StaleFile(fld) ==
    <<Line("stale", 0, IF fld = "structure" THEN <<"z", "z", "z", "z">> ELSE <<"z">>)>>

\* Suffixes of such files: '<corpus>.+.txt' sorts before every shard,
\* '<corpus>.00.txt' between shards 0 and 1, '<corpus>.9.txt' after shards 0..8.
StaleSuffixes == {<<"+">>, <<"0", "0">>, <<"9">>}

\* The name of a dataset file without a shard index.
Mono == -1

\* The dataset file name without the corpus type in it.
PtFileNoType(corpus_type, index) == <<"train", index>>

\* "{:s}_{:s}.{:d}.pt".format(opt.save_data, corpus_type, index)
PtFile(corpus_type, index) == <<corpus_type, index>>

\* <corpus> + ".{0}.txt".format(x)
ShardFile(ct, fld, x) == <<ct, fld, Format(x)>>

\* A file system after writing content to name / after removing names.
Write(fs, name, content) ==
    [n \in DOMAIN fs \cup {name} |-> IF n = name THEN content ELSE fs[n]]
Remove(fs, names) == [n \in DOMAIN fs \ names |-> fs[n]]

\* glob.glob(corpus + '.*.txt'), sorted: the suffixes of the matching files.
GlobSorted(fs, ct, fld) ==
    Sorted({n[3] : n \in {m \in DOMAIN fs : m[1] = ct /\ m[2] = fld}})

\* build_dataset on four line iterators: example k combines the k-th line of each.
build_dataset(src_iter, tgt_iter, structure_iter, mask_iter) ==
    [k \in 1..Min(Min(Len(src_iter), Len(tgt_iter)),
                  Min(Len(structure_iter), Len(mask_iter))) |->
        [src |-> src_iter[k], tgt |-> tgt_iter[k],
         structure |-> structure_iter[k], mask |-> mask_iter[k]]]

\* The assertion of line 144 on one line quadruple.
LineAssert(s, t, structure, mask) ==
    /\ (Len(s.w) + 1) * (Len(s.w) + 1) = Len(structure.w)
    /\ Len(t.w) * Len(t.w) = Len(mask.w)

\* zip(src_file, tgt_file, structure_file, mask_file): the number of quadruples.
ZipLen(c) == Min(Min(Len(c["src"]), Len(c["tgt"])), Min(Len(c["structure"]), Len(c["mask"])))

\* int(len(src_data) / opt.shard_size) for shard_size > 0.
NumShards(n, shard_size) == n \div shard_size

\* The condition of line 170 with >= for >: a last shard is written even when no
\* line is left.
HasRestOrEqual(n, num_written) == n >= num_written

\* The condition of line 170: lines are left for a last, shorter shard.
HasRest(n, num_written) == n > num_written

\* get_fields(): the four fields, without vocabularies.
DefaultFields ==
    [k \in FieldSet |->
        [unk_token |-> UNK_WORD, pad_token |-> PAD_WORD,
         init_token |-> IF k = "tgt" THEN BOS_WORD ELSE None,
         eos_token |-> IF k = "tgt" THEN EOS_WORD ELSE None,
         sequential |-> TRUE]]

\* ------------------------------------------------------------------ state

VARIABLES
    opt,                  \* the parsed options
    fields,               \* the Field objects of get_fields()
    vocabs,               \* fields[k].vocab, NoVocab before build_vocab
    corpus,               \* the corpus files: corpus[corpus_type][field]
    txt,                  \* the '<corpus>.<suffix>.txt' files: name -> lines
    pt,                   \* the dataset files: name -> examples
    vocab_files,          \* the vocabulary files written by build_save_vocab
    log,                  \* TRUE once init_logger has opened the log file
    opened,               \* the corpus files opened for reading so far
    pc,                   \* the position in main
    corpus_type,          \* the argument of the running build_save_dataset
    data,                 \* src_data, tgt_data, structure_data, mask_data
    x,                    \* the loop variable of the splitting loop
    lists,                \* src_list, tgt_list, structure_list, mask_list
    index,                \* the loop variable of the building loop
    ret_list,             \* ret_list
    train_dataset_files,  \* what build_save_dataset('train', ...) returned
    load,                 \* number of dataset files build_vocab has loaded
    counter,              \* build_vocab's counters
    err,                  \* the exception that ended the run, or None
    pre,                  \* the txt files as they were when the running call began
    written               \* the txt files the running call has written

vars == <<opt, fields, vocabs, corpus, txt, pt, vocab_files, log, opened, pc,
          corpus_type, data, x, lists, index, ret_list, train_dataset_files,
          load, counter, err, pre, written>>

NoData == [k \in FieldSet |-> <<>>]
NoVocabs == [k \in FieldSet |-> NoVocab]
NoCounters == [k \in FieldSet |-> EmptyCounter]
EmptyFs == [n \in {} |-> <<>>]

\* The stale text files of a run: none, one beside the source corpus only, or one
\* beside each of the four corpora (what a crashed earlier run leaves).
StaleSets ==
    {{}} \cup
    {{<<ct, "src", s>>} : ct \in CorpusTypes, s \in StaleSuffixes} \cup
    {{<<ct, fld, s>> : fld \in FieldSet} : ct \in CorpusTypes, s \in StaleSuffixes}

\* Lines of the smaller corpora, used where shapes and stale files vary.
SmallLines == 3

Options(shuffle, shard_size, share_vocab, sv, sf, tv, tf, cv, cf) ==
    [shuffle |-> shuffle, shard_size |-> shard_size, share_vocab |-> share_vocab,
     src_vocab_size |-> sv, src_words_min_frequency |-> sf,
     tgt_vocab_size |-> tv, tgt_words_min_frequency |-> tf,
     structure_vocab_size |-> cv, structure_words_min_frequency |-> cf]

Locals0 ==
    /\ corpus_type = "train"
    /\ data = NoData
    /\ x = 0
    /\ lists = NoData
    /\ index = 0
    /\ ret_list = <<>>
    /\ train_dataset_files = <<>>
    /\ load = 0
    /\ counter = NoCounters
    /\ err = None
    /\ written = {}

\* A run of main: the options, the corpus files and the files already on disk.
Init ==
    /\ \E shuffle \in {0, 1}, shard_size \in -1..MaxShardSize, share \in BOOLEAN,
          nt \in 0..MaxTrainLines, nv \in 0..MaxValidLines,
          shape \in Shapes, bad \in CorpusTypes, stale \in StaleSets :
        /\ nt > SmallLines => nv = 0 /\ ~share
        /\ nt > SmallLines => shape = "ok" /\ stale = {}
        /\ shuffle > 0 => shape = "ok" /\ ~share
        /\ shape # "ok" => stale = {} /\ ~share
        /\ stale # {} => ~share
        /\ shape = "ok" => bad = "train"
        /\ shape \in {"bad_structure", "bad_mask", "short_tgt", "short_structure",
                      "short_mask"} => (IF bad = "train" THEN nt ELSE nv) > 0
        /\ opt = Options(shuffle, shard_size, share, MaxVocabSize, 1, MaxVocabSize, 1,
                         MaxVocabSize, 1)
        /\ corpus = [ct \in CorpusTypes |-> [fld \in FieldSet |->
                        CorpusFile(ct, fld, IF ct = "train" THEN nt ELSE nv,
                                   IF ct = bad THEN shape ELSE "ok")]]
        /\ txt = [n \in stale |-> StaleFile(n[2])]
    /\ fields = DefaultFields
    /\ vocabs = NoVocabs
    /\ pt = EmptyFs
    /\ vocab_files = NoVocabs
    /\ log = FALSE
    /\ opened = {}
    /\ pc = "start"
    /\ pre = txt
    /\ Locals0

\* ------------------------------------------------------------------ main and the datasets

Stop(e) == /\ pc' = "failed"
           /\ err' = e

\* main with init_logger called before the shuffle check.
MainLogFirst ==
    /\ pc = "start"
    /\ log' = TRUE
    /\ IF opt.shuffle > 0
       THEN /\ Stop("AssertionError")
            /\ UNCHANGED corpus_type
       ELSE /\ pc' = "build"
            /\ corpus_type' = "train"
            /\ UNCHANGED err
    /\ UNCHANGED <<opt, fields, vocabs, corpus, txt, pt, vocab_files, opened, data, x,
                   lists, index, ret_list, train_dataset_files, load, counter, pre,
                   written>>

\* main, lines 313-322: parse_args, the shuffle check, init_logger, get_fields.
Main ==
    /\ pc = "start"
    /\ IF opt.shuffle > 0
       THEN /\ Stop("AssertionError")
            /\ UNCHANGED <<log, corpus_type>>
       ELSE /\ log' = TRUE
            /\ pc' = "build"
            /\ corpus_type' = "train"
            /\ UNCHANGED err
    /\ UNCHANGED <<opt, fields, vocabs, corpus, txt, pt, vocab_files, opened, data, x,
                   lists, index, ret_list, train_dataset_files, load, counter, pre,
                   written>>

\* What main does with the list build_save_dataset returns (lines 325-331).
Return(files) ==
    IF corpus_type = "train"
    THEN /\ train_dataset_files' = files
         /\ corpus_type' = "valid"
         /\ pc' = "build"
    ELSE /\ pc' = "vocab"
         /\ UNCHANGED <<train_dataset_files, corpus_type>>

\* build_save_dataset with shard_size <= 0, lines 285-309: one dataset of the
\* whole corpus, saved as '<save_data>_<corpus_type>.pt'.
BuildMonolithic ==
    /\ pc = "build"
    /\ ~(opt.shard_size > 0)
    /\ LET c == corpus[corpus_type]
           dataset == build_dataset(c["src"], c["tgt"], c["structure"], c["mask"])
           pt_file == PtFile(corpus_type, Mono)
       IN  /\ pt' = Write(pt, pt_file, dataset)
           /\ Return(<<pt_file>>)
    /\ opened' = opened \cup {<<corpus_type, fld>> : fld \in FieldSet}
    /\ UNCHANGED <<opt, fields, vocabs, corpus, txt, vocab_files, log, data, x, lists,
                   index, ret_list, load, counter, err, pre, written>>

\* build_save_in_shards_using_shards_size, lines 130-147: the four files are read
\* in step (zip stops at the shortest) and every quadruple is asserted on; then
\* the lengths of the lists read are compared.
ReadCorpora ==
    /\ pc = "build"
    /\ opt.shard_size > 0
    /\ LET c == corpus[corpus_type]
           n == ZipLen(c)
           read == [k \in FieldSet |-> SubSeq(c[k], 1, n)]
       IN  IF \E i \in 1..n : ~LineAssert(c["src"][i], c["tgt"][i],
                                           c["structure"][i], c["mask"][i])
           THEN /\ Stop("AssertionError")
                /\ UNCHANGED data
           ELSE IF \/ Len(read["src"]) # Len(read["tgt"])
                   \/ Len(read["tgt"]) # Len(read["structure"])
           THEN /\ Stop("AssertionError")
                /\ UNCHANGED data
           ELSE /\ data' = read
                /\ pc' = "split"
                /\ UNCHANGED err
    /\ opened' = opened \cup {<<corpus_type, fld>> : fld \in FieldSet}
    /\ x' = 0
    /\ pre' = txt
    /\ written' = {}
    /\ UNCHANGED <<opt, fields, vocabs, corpus, txt, pt, vocab_files, log, corpus_type,
                   lists, index, ret_list, train_dataset_files, load, counter>>

\* The four files of shard number n with the lines given by lo and hi (Python slice).
WriteShard(fs, n, lo, hi) ==
    LET names == {ShardFile(corpus_type, fld, n) : fld \in FieldSet}
    IN  [m \in DOMAIN fs \cup names |->
            IF m \in names THEN Slice(data[m[2]], lo, hi) ELSE fs[m]]

\* One pass of the loop of lines 150-167: shard x of each corpus is written.
SplitShard ==
    /\ pc = "split"
    /\ x < NumShards(Len(data["src"]), opt.shard_size)
    /\ txt' = WriteShard(txt, x, x * opt.shard_size, (x + 1) * opt.shard_size)
    /\ written' = written \cup {ShardFile(corpus_type, fld, x) : fld \in FieldSet}
    /\ x' = x + 1
    /\ UNCHANGED <<opt, fields, vocabs, corpus, pt, vocab_files, log, opened, pc,
                   corpus_type, data, lists, index, ret_list, train_dataset_files,
                   load, counter, err, pre>>

\* Lines 169-191: the last, shorter shard when lines are left, then the sorted
\* globs of the four corpora.
SplitRest ==
    /\ pc = "split"
    /\ x = NumShards(Len(data["src"]), opt.shard_size)
    /\ LET num_shards == x
           num_written == num_shards * opt.shard_size
           rest == HasRest(Len(data["src"]), num_written)
           fs == IF rest
                 THEN WriteShard(txt, num_shards, num_written, Len(data["src"]))
                 ELSE txt
       IN  /\ txt' = fs
           /\ written' = IF rest
                         THEN written \cup {ShardFile(corpus_type, fld, num_shards) :
                                               fld \in FieldSet}
                         ELSE written
           /\ lists' = [fld \in FieldSet |-> GlobSorted(fs, corpus_type, fld)]
    /\ pc' = "shards"
    /\ index' = 0
    /\ ret_list' = <<>>
    /\ UNCHANGED <<opt, fields, vocabs, corpus, pt, vocab_files, log, opened,
                   corpus_type, data, x, train_dataset_files, load, counter, err, pre>>

\* One pass of the loop of lines 195-230: the dataset of the index-th file of each
\* list is built and saved, and the four text files are removed.  A list shorter
\* than src_list ends the run with an IndexError.
BuildShard ==
    /\ pc = "shards"
    /\ index < Len(lists["src"])
    /\ IF \E fld \in FieldSet : Len(lists[fld]) <= index
       THEN /\ Stop("IndexError")
            /\ UNCHANGED <<txt, pt, ret_list, index>>
       ELSE LET name(fld) == <<corpus_type, fld, lists[fld][index + 1]>>
                dataset == build_dataset(txt[name("src")], txt[name("tgt")],
                                         txt[name("structure")], txt[name("mask")])
                pt_file == PtFile(corpus_type, index)
            IN  /\ pt' = Write(pt, pt_file, dataset)
                /\ ret_list' = Append(ret_list, pt_file)
                /\ txt' = Remove(txt, {name(fld) : fld \in FieldSet})
                /\ index' = index + 1
                /\ UNCHANGED <<pc, err>>
    /\ UNCHANGED <<opt, fields, vocabs, corpus, vocab_files, log, opened, corpus_type,
                   data, x, lists, train_dataset_files, load, counter, pre, written>>

\* Line 232: the loop is over and ret_list is returned to main.
ReturnShards ==
    /\ pc = "shards"
    /\ index >= Len(lists["src"])
    /\ Return(ret_list)
    /\ UNCHANGED <<opt, fields, vocabs, corpus, txt, pt, vocab_files, log, opened,
                   data, x, lists, index, ret_list, load, counter, err, pre, written>>

\* ------------------------------------------------------------------ the vocabularies

\* One pass of the loop of lines 57-76 of build_vocab: a dataset file is loaded
\* and its examples are counted.  torch.load fails when the file does not exist.
LoadDataset ==
    /\ pc = "vocab"
    /\ load < Len(train_dataset_files)
    /\ LET path == train_dataset_files[load + 1]
       IN  IF path \in DOMAIN pt
           THEN /\ counter' = CountExamples(counter, pt[path], fields)
                /\ load' = load + 1
                /\ UNCHANGED <<pc, err>>
           ELSE /\ Stop("FileNotFoundError")
                /\ UNCHANGED <<counter, load>>
    /\ UNCHANGED <<opt, fields, vocabs, corpus, txt, pt, vocab_files, log, opened,
                   corpus_type, data, x, lists, index, ret_list, train_dataset_files,
                   pre, written>>

\* Lines 78-111 of build_vocab: the per-field vocabularies, merged when shared.
BuildVocab ==
    /\ pc = "vocab"
    /\ load = Len(train_dataset_files)
    /\ vocabs' = SharedVocabs(FieldVocabs(counter, fields, opt), opt)
    /\ pc' = "save_vocab"
    /\ UNCHANGED <<opt, fields, corpus, txt, pt, vocab_files, log, opened, corpus_type,
                   data, x, lists, index, ret_list, train_dataset_files, load, counter,
                   err, pre, written>>

\* build_save_vocab, lines 256-261: the vocabularies are written to disk.
SaveVocab ==
    /\ pc = "save_vocab"
    /\ vocab_files' = vocabs
    /\ pc' = "done"
    /\ UNCHANGED <<opt, fields, vocabs, corpus, txt, pt, log, opened, corpus_type, data,
                   x, lists, index, ret_list, train_dataset_files, load, counter, err,
                   pre, written>>

Next ==
    \/ Main
    \/ BuildMonolithic
    \/ ReadCorpora
    \/ SplitShard
    \/ SplitRest
    \/ BuildShard
    \/ ReturnShards
    \/ LoadDataset
    \/ BuildVocab
    \/ SaveVocab

Spec == Init /\ [][Next]_vars

\* ------------------------------------------------------------------ properties

\* The tokens of a set of lines, and of the corpus files of a corpus type.
RECURSIVE TokensOf(_)
TokensOf(lines) ==
    IF lines = <<>> THEN {} ELSE Range(Head(lines).w) \cup TokensOf(Tail(lines))
CorpusTokens(ct) == UNION {TokensOf(corpus[ct][fld]) : fld \in FieldSet}

\* The four corpus files of a corpus type have the same number of lines.
SameLength(ct) == \A fld \in FieldSet : Len(corpus[ct][fld]) = Len(corpus[ct]["src"])

\* ceil(n / s) for s > 0.
Ceil(n, s) == (n + s - 1) \div s

\* C2: for four corpus files of N lines each and shard_size S > 0, when the
\* splitting is over exactly the text shards 0..ceil(N/S)-1 of each corpus have
\* been written, shard k holds the lines [k*S, min((k+1)*S, N)) of its corpus, so
\* every shard is non-empty, every shard but the last has S lines, and the shards
\* in numeric order concatenate to the corpus.
C2_Shards ==
    (pc = "shards" /\ index = 0 /\ SameLength(corpus_type)) =>
        LET N == Len(corpus[corpus_type]["src"])
            S == opt.shard_size
            K == Ceil(N, S)
        IN  /\ written = {<<corpus_type, fld, Format(k)>> : fld \in FieldSet, k \in 0..(K - 1)}
            /\ \A fld \in FieldSet :
                /\ \A k \in 0..(K - 1) :
                    LET shard == txt[<<corpus_type, fld, Format(k)>>]
                        hi == Min((k + 1) * S, N)
                    IN  /\ Len(shard) = hi - k * S
                        /\ Len(shard) > 0
                        /\ k < K - 1 => Len(shard) = S
                        /\ \A i \in 1..Len(shard) :
                              shard[i] = corpus[corpus_type][fld][k * S + i]
                /\ Concat([k \in 1..K |-> txt[<<corpus_type, fld, Format(k - 1)>>]])
                       = corpus[corpus_type][fld]

\* A corpus of 3 lines split with shard_size 2 (a last, shorter shard).
C2_Witness ==
    /\ pc = "shards" /\ index = 0 /\ SameLength(corpus_type)
    /\ Len(corpus[corpus_type]["src"]) = 3
    /\ opt.shard_size = 2

\* C8: with shuffle > 0 main ends with an AssertionError in its first step: no
\* corpus is opened and no text shard, dataset file, vocabulary file or log file
\* is created or changed.
C8_Shuffle ==
    opt.shuffle > 0 =>
        /\ pc \in {"start", "failed"}
        /\ pc = "failed" => err = "AssertionError"
        /\ opened = {}
        /\ txt = pre
        /\ pt = EmptyFs
        /\ vocab_files = NoVocabs
        /\ ~log

C8_Witness == opt.shuffle > 0 /\ pc = "failed" /\ txt # EmptyFs

\* The dataset files a complete build_save_dataset of a corpus type leaves.
DatasetNames(ct) ==
    IF opt.shard_size > 0
    THEN {n \in DOMAIN pt : n[1] = ct /\ n[2] # Mono}
    ELSE {PtFile(ct, Mono)}

\* C6 (state part): build_vocab runs only after the training and the validation
\* datasets are saved, on exactly the files returned for 'train', each of which
\* exists when it is loaded; and no token that occurs only in the validation
\* corpora is in a vocabulary.
C6_State ==
    /\ pc \in {"vocab", "save_vocab", "done"} =>
        /\ corpus_type = "valid"
        /\ PtFile("valid", IF opt.shard_size > 0 THEN 0 ELSE Mono) \in DOMAIN pt
              \/ (opt.shard_size > 0 /\ lists["src"] = <<>>)
        /\ Range(train_dataset_files) = DatasetNames("train")
        /\ \A i, j \in 1..Len(train_dataset_files) :
              train_dataset_files[i] = train_dataset_files[j] => i = j
        /\ err = None
    /\ pc \in {"save_vocab", "done"} =>
        \A fld \in FieldSet : \A i \in 1..Len(vocabs[fld].itos) :
            vocabs[fld].itos[i] \notin (CorpusTokens("valid") \ CorpusTokens("train"))

\* C6 (step part): once the training files are returned, no later step of main
\* changes or deletes one of them.
C6_Step ==
    corpus_type = "valid" =>
        \A n \in Range(train_dataset_files) :
            n \in DOMAIN pt /\ n \in DOMAIN pt' /\ pt'[n] = pt[n]

\* C6: the vocabularies are built from the training datasets only, after all
\* dataset files are saved, and the validation stage leaves the training files
\* as they were written.
C6_TrainOnly == [](C6_State) /\ [][C6_Step]_vars

\* Vocabularies built, with sharding, from a training corpus while the
\* validation corpus has tokens of its own.
C6_Witness ==
    /\ pc = "done"
    /\ opt.shard_size > 0
    /\ Len(train_dataset_files) > 1
    /\ PtFile("valid", 1) \in DOMAIN pt
    /\ CorpusTokens("valid") \ CorpusTokens("train") # {}

\* An example made of one line quadruple of the corpora of a corpus type: line j
\* of the source, target, structure and mask corpus for one j.
InputQuadruple(ex, ct) ==
    \A fld \in FieldSet : ex[fld].o = ct /\ ex[fld].n = ex["src"].n

\* The relation between the annotations of an example and its source and target.
WellFormed(ex) ==
    /\ Len(ex["structure"].w) = (Len(ex["src"].w) + 1) ^ 2
    /\ Len(ex["mask"].w) = Len(ex["tgt"].w) ^ 2

\* The corpus files of a corpus type hold a line quadruple that breaks the relation.
HasBadQuadruple(ct) ==
    \E i \in 1..ZipLen(corpus[ct]) :
        ~WellFormed([fld \in FieldSet |-> corpus[ct][fld][i]])

\* C1: every example saved from a line quadruple of the corpora has a structure
\* annotation of (len(src)+1)^2 tokens and a mask annotation of len(tgt)^2 tokens,
\* whatever shard_size is, and a quadruple that breaks either relation ends the
\* run with an AssertionError.
C1_AnnotationLengths ==
    /\ \A n \in DOMAIN pt : \A k \in 1..Len(pt[n]) :
          InputQuadruple(pt[n][k], n[1]) => WellFormed(pt[n][k])
    /\ \A ct \in CorpusTypes :
          (HasBadQuadruple(ct) /\ corpus_type = ct /\ pc # "start" /\ pc # "build") =>
              pc = "failed" /\ err = "AssertionError"

\* C3: every example of a dataset shard saved by
\* build_save_in_shards_using_shards_size combines lines of one origin and one
\* line number, whatever files exist next to the corpora when the run starts.
C3_Aligned ==
    \A n \in DOMAIN pt : n[2] # Mono =>
        \A k \in 1..Len(pt[n]) : \A fld \in FieldSet :
            /\ pt[n][k][fld].o = pt[n][k]["src"].o
            /\ pt[n][k][fld].n = pt[n][k]["src"].n

\* C7: when the source, target and structure corpora of a sharded call differ in
\* their number of lines, the call ends with an AssertionError and writes no
\* shard file.
C7_LengthCheck ==
    (/\ opt.shard_size > 0
     /\ \E fld \in {"tgt", "structure"} :
           Len(corpus[corpus_type][fld]) # Len(corpus[corpus_type]["src"])) =>
        \/ pc \in {"start", "build"}
        \/ pc = "failed" /\ err = "AssertionError" /\ written = {}

\* C9: in a call that finds no earlier text shards on disk, the dataset file
\* '<save_data>_<corpus_type>.<i>.pt' holds the examples of the corpus lines
\* [i*shard_size, (i+1)*shard_size), and the returned list names the files in
\* that order, for any number of shards.
C9_ShardOrder ==
    (pre = EmptyFs /\ opt.shard_size > 0) =>
        /\ \A n \in DOMAIN pt : n[1] = corpus_type =>
              \A k \in 1..Len(pt[n]) :
                  /\ pt[n][k]["src"].o = n[1]
                  /\ pt[n][k]["src"].n = n[2] * opt.shard_size + k - 1
        /\ pc = "shards" =>
              \A i \in 1..Len(ret_list) : ret_list[i] = PtFile(corpus_type, i - 1)

\* C10: when build_save_in_shards_using_shards_size returns, none of the text
\* shards it wrote is left, and every file that existed before the call is still
\* there, unchanged, and no dataset was built from it.
C10_CleansOwnFiles ==
    (pc = "shards" /\ index >= Len(lists["src"])) =>
        /\ written \cap DOMAIN txt = {}
        /\ \A n \in DOMAIN pre : n \in DOMAIN txt /\ txt[n] = pre[n]
        /\ \A n \in Range(ret_list) : \A k \in 1..Len(pt[n]) :
              \A fld \in FieldSet : pt[n][k][fld].o # "stale"

\* ------------------------------------------------------------------ build_vocab on its own

\* Fields whose special tokens repeat or are undefined, and a mask field that is
\* not sequential.
OtherFields ==
    [k \in FieldSet |->
        [unk_token |-> IF k = "mask" THEN None ELSE UNK_WORD,
         pad_token |-> IF k = "src" THEN UNK_WORD ELSE PAD_WORD,
         init_token |-> IF k = "tgt" THEN BOS_WORD ELSE None,
         eos_token |-> IF k = "tgt" THEN BOS_WORD ELSE None,
         sequential |-> k # "mask"]]

Example(n, s, t, c, m) ==
    [src |-> Line("train", n, s), tgt |-> Line("train", n, t),
     structure |-> Line("train", n, c), mask |-> Line("train", n, m)]

\* The examples the dataset files are made of.  The source and target share the
\* words "a" and "b"; the last source holds the text of a special token.
ExamplePool ==
    <<Example(0, <<"a">>, <<"a">>, <<"s", "r", "r", "s">>, <<"1">>),
      Example(1, <<"b", "a">>, <<"x">>,
              <<"s", "r", "s", "s", "r", "s", "s", "s", "r">>, <<"0">>),
      Example(2, <<"<s>">>, <<"b">>, <<"r", "r", "r", "r">>, <<"1">>)>>

\* The dataset files: up to MaxExamples examples of the pool, in the pool's order.
DatasetFiles ==
    {[i \in 1..Len(ix) |-> ExamplePool[ix[i]]] :
        ix \in {jx \in UNION {[1..n -> 1..Len(ExamplePool)] : n \in 0..MaxExamples} :
                   \A i \in 1..(Len(jx) - 1) : jx[i] <= jx[i + 1]}}

\* build_save_vocab is entered with one or two training dataset files on disk.
InitVocab ==
    /\ \E share \in BOOLEAN, sv \in 0..MaxVocabSize, sf \in 0..MaxMinFreq,
          tv \in 0..MaxVocabSize, tf \in {0, MaxMinFreq} :
          opt = Options(0, 1, share, sv, sf, tv, tf, MaxVocabSize - sv, MaxMinFreq - sf)
    /\ fields \in {DefaultFields, OtherFields}
    /\ \E f \in DatasetFiles, two \in BOOLEAN :
          /\ pt = IF two
                  THEN Write(Write(EmptyFs, PtFile("train", 0), f),
                             PtFile("train", 1), <<ExamplePool[2]>>)
                  ELSE Write(EmptyFs, PtFile("train", 0), f)
          /\ train_dataset_files = IF two THEN <<PtFile("train", 0), PtFile("train", 1)>>
                                   ELSE <<PtFile("train", 0)>>
    /\ corpus = [ct \in CorpusTypes |-> NoData]
    /\ txt = EmptyFs
    /\ pre = EmptyFs
    /\ vocabs = NoVocabs
    /\ vocab_files = NoVocabs
    /\ log = TRUE
    /\ opened = {<<ct, fld>> : ct \in CorpusTypes, fld \in FieldSet}
    /\ pc = "vocab"
    /\ corpus_type = "valid"
    /\ data = NoData
    /\ x = 0
    /\ lists = NoData
    /\ index = 0
    /\ ret_list = <<>>
    /\ load = 0
    /\ counter = NoCounters
    /\ err = None
    /\ written = {}

NextVocab ==
    \/ LoadDataset
    \/ BuildVocab
    \/ SaveVocab

SpecVocab == InitVocab /\ [][NextVocab]_vars

\* The number of occurrences of a token in a field of the training examples.
Occurrences(fld, tok) ==
    LET words(f, e) == pt[train_dataset_files[f]][e][fld].w
        places == UNION {UNION {{<<f, e, i>> : i \in 1..Len(words(f, e))} :
                                   e \in 1..Len(pt[train_dataset_files[f]])} :
                            f \in 1..Len(train_dataset_files)}
    IN  Cardinality({p \in places : words(p[1], p[2])[p[3]] = tok})

\* The special tokens of a field that are defined.
DefinedSpecials(field) ==
    {field.unk_token, field.pad_token, field.init_token, field.eos_token} \ {None}

\* itos begins with the tokens of order that are in specials, each once and in
\* the order of their first occurrence in order, and holds them nowhere else.
SpecialsFirst(itos, specials, order) ==
    LET m == Cardinality(specials)
        first(t) == CHOOSE i \in 1..Len(order) :
                        order[i] = t /\ \A j \in 1..(i - 1) : order[j] # t
    IN  /\ Len(itos) >= m
        /\ {itos[i] : i \in 1..m} = specials
        /\ \A i, j \in 1..m : i < j => first(itos[i]) < first(itos[j])
        /\ \A i \in (m + 1)..Len(itos) : itos[i] \notin specials

FieldOrder(field) ==
    <<field.unk_token, field.pad_token, field.init_token, field.eos_token>>

\* C4: without share_vocab, the vocabularies of src, tgt and structure hold only
\* non-special tokens that occur at least <field>_words_min_frequency times in
\* that field of the training examples, and at most <field>_vocab_size of them;
\* the mask vocabulary holds at most 2; and every vocabulary begins with the
\* field's defined special tokens, without duplicates.
C4_FieldVocabs ==
    (pc \in {"save_vocab", "done"} /\ ~opt.share_vocab) =>
        LET limit == [src |-> <<opt.src_vocab_size, opt.src_words_min_frequency>>,
                      tgt |-> <<opt.tgt_vocab_size, opt.tgt_words_min_frequency>>,
                      structure |-> <<opt.structure_vocab_size,
                                      opt.structure_words_min_frequency>>,
                      mask |-> <<2, 0>>]
        IN  \A k \in FieldSet :
                LET itos == vocabs[k].itos
                    m == Cardinality(DefinedSpecials(fields[k]))
                IN  /\ SpecialsFirst(itos, DefinedSpecials(fields[k]), FieldOrder(fields[k]))
                    /\ Len(itos) - m <= limit[k][1]
                    /\ \A i \in (m + 1)..Len(itos) :
                          Occurrences(k, itos[i]) >= limit[k][2]
                    /\ \A i, j \in 1..Len(itos) : itos[i] = itos[j] => i = j

\* Per-field vocabularies in which a size limit and a frequency limit both cut.
C4_Witness ==
    /\ pc = "done" /\ ~opt.share_vocab
    /\ opt.src_vocab_size = 1 /\ opt.src_words_min_frequency = MaxMinFreq
    /\ opt.tgt_vocab_size = MaxVocabSize
    /\ Len(vocabs["src"].itos) = 3
    /\ Len(vocabs["tgt"].itos) > 4
    /\ \E t \in {"a", "b"} : Occurrences("src", t) = 1

\* C5: with share_vocab, src and tgt hold one vocabulary: the four special tokens,
\* then the words by their summed source and target frequency in the training
\* examples, cut by src_vocab_size and src_words_min_frequency; tgt_vocab_size
\* and tgt_words_min_frequency have no effect on it.
C5_SharedVocab ==
    (pc \in {"save_vocab", "done"} /\ opt.share_vocab) =>
        LET itos == vocabs["src"].itos
            specials == {UNK_WORD, PAD_WORD, BOS_WORD, EOS_WORD}
            total(t) == Occurrences("src", t) + Occurrences("tgt", t)
            words == {itos[i] : i \in 5..Len(itos)}
            seen == {t \in Range(TokenOrder) : total(t) > 0}
        IN  /\ vocabs["tgt"] = vocabs["src"]
            /\ SubSeq(itos, 1, 4) = <<UNK_WORD, PAD_WORD, BOS_WORD, EOS_WORD>>
            /\ words \cap specials = {}
            /\ Cardinality(words) = Len(itos) - 4
            /\ Len(itos) - 4 <= opt.src_vocab_size
            /\ \A t \in words : total(t) >= Max(opt.src_words_min_frequency, 1)
            /\ \A t \in seen \ (words \cup specials) :
                  total(t) >= Max(opt.src_words_min_frequency, 1) =>
                      /\ Len(itos) - 4 = opt.src_vocab_size
                      /\ \A u \in words : total(u) >= total(t)
            /\ \A t \in seen : Get(vocabs["src"].freqs, t) = total(t)
            /\ \A tv \in 0..MaxVocabSize, tf \in 0..MaxMinFreq :
                  LET o == [opt EXCEPT !.tgt_vocab_size = tv,
                                       !.tgt_words_min_frequency = tf]
                  IN  SharedVocabs(FieldVocabs(counter, fields, o), o)["src"]
                          = vocabs["src"]

\* A shared vocabulary that holds a word of the target only, which the target's
\* own size limit of 0 had dropped.
C5_Witness ==
    /\ pc = "done" /\ opt.share_vocab
    /\ opt.tgt_vocab_size = 0
    /\ \E t \in Range(vocabs["src"].itos) :
          Occurrences("tgt", t) > 0 /\ Occurrences("src", t) = 0

====
